---- MODULE Spec2Model ----
(***************************************************************************)
(* derr.h: leveled logging with console / file / syslog fan-out, errno     *)
(* formatting and the fatal-path macros (DIE, DIE_ERRNO, DASSERT, DTRY).   *)
(*                                                                         *)
(* The model is the POSIX build (DERR_POSIX = 1, backtrace compiled in,    *)
(* XSI strerror_r).  Every read or write of a g_derr field and every call  *)
(* on a sink is one step of the calling thread, so that the unsynchronised *)
(* accesses of the configuration interleave as they can in the program.    *)
(***************************************************************************)
EXTENDS Integers, Sequences, FiniteSets, TLC

\* ----- bounds of the model -----
MaxCalls == 3
MaxConcCalls == 2

\* two threads: enough for every pair of calls to overlap
Threads == {1, 2}
NoThread == 0

\* ----- enum derr_level -----
DERR_DEBUG == 10
DERR_INFO == 20
DERR_WARN == 30
DERR_ERROR == 40
DERR_FATAL == 50
Levels == {DERR_DEBUG, DERR_INFO, DERR_WARN, DERR_ERROR, DERR_FATAL}

\* ----- syslog priorities (syslog.h) -----
LOG_CRIT == 2
LOG_ERR == 3
LOG_WARNING == 4
LOG_INFO == 6
LOG_DEBUG == 7

NULL == "NULL"

\* error numbers the C library has a description for (2 is ENOENT)
KnownErrno == {2}

\* ----- inputs -----
\* 45 and 60 are derr_level arguments that are none of the five enumerators
LevelInputs == Levels \cup {45, 60}
\* 9999 is an error number the C library has no description for
ErrnoInputs == {2, 9999}
IntInputs == {0, 1, 5}
NameInputs == {NULL, "demo"}
FileInputs == {NULL, "fp"}
ExprInputs == {-2, -1, 0, 5}
FrameInputs == {0, 3}
\* the levels logged in the concurrent runs
ConcLevels == {DERR_ERROR, DERR_FATAL}

VARIABLES
    g_derr,   \* static struct derr_state (without the mutex)
    mu,       \* g_derr.mu: the thread holding it, or NoThread
    pc,       \* pc[t]: where thread t is
    loc,      \* loc[t]: arguments and locals of the call thread t is in
    ev,       \* ev[t]: what the current call of t has done to the sinks
    lastw,    \* the thread whose write reached a sink last
    chan,     \* the syslog channel: "open" or "closed"
    nopen,    \* openlog() calls so far
    nclose,   \* closelog() calls so far
    proc,     \* "running", "exit_failure", "abort" or "segv"
    calls     \* calls the program has yet to make

vars == <<g_derr, mu, pc, loc, ev, lastw, chan, nopen, nclose, proc, calls>>

\* ----- pure helpers -----

level_str(l) ==
    CASE l = DERR_DEBUG -> "DEBUG"
      [] l = DERR_INFO  -> "INFO"
      [] l = DERR_WARN  -> "WARN"
      [] l = DERR_ERROR -> "ERROR"
      [] l = DERR_FATAL -> "FATAL"
      [] OTHER          -> "LOG"

\* level_color with the value of g_derr.color it read
level_color(color, l) ==
    IF color = 0 THEN ""
    ELSE CASE l = DERR_DEBUG -> "ESC[2m"
           [] l = DERR_INFO  -> "ESC[0m"
           [] l = DERR_WARN  -> "ESC[33m"
           [] l = DERR_ERROR -> "ESC[31m"
           [] l = DERR_FATAL -> "ESC[1;31m"
           [] OTHER          -> "ESC[0m"

color_reset_always(color) == "ESC[0m"

color_reset(color) == IF color # 0 THEN "ESC[0m" ELSE ""

\* XSI strerror_r: 0 and the description, or an error and no usable text
strerror_r(errnum) ==
    IF errnum \in KnownErrno
    THEN [rc |-> 0, text |-> "No such file or directory"]
    ELSE [rc |-> 22, text |-> "Unknown error " \o ToString(errnum)]

strerror_portable_unchecked(errnum) == strerror_r(errnum).text

strerror_portable(errnum) ==
    LET res == strerror_r(errnum)
    IN  IF res.rc # 0 THEN "errno " \o ToString(errnum) ELSE res.text

syslog_priority_by_rank(l) ==
    CASE l <= DERR_DEBUG -> LOG_DEBUG
      [] l <= DERR_INFO  -> LOG_INFO
      [] l <= DERR_WARN  -> LOG_WARNING
      [] l <= DERR_ERROR -> LOG_ERR
      [] OTHER           -> LOG_CRIT

\* the switch of vemit that picks the syslog priority
syslog_priority(l) ==
    CASE l = DERR_DEBUG -> LOG_DEBUG
      [] l = DERR_INFO  -> LOG_INFO
      [] l = DERR_WARN  -> LOG_WARNING
      [] l = DERR_ERROR -> LOG_ERR
      [] l = DERR_FATAL -> LOG_CRIT
      [] OTHER          -> LOG_INFO

\* int -> 0/1, as in "enable ? 1 : 0"
Bool01(x) == IF x # 0 THEN 1 ELSE 0

\* ----- state after static initialisation -----

derr_state0 ==
    [progname |-> NULL, min_level |-> DERR_DEBUG, color |-> 1, utc |-> 0,
     include_errno |-> 1, file |-> NULL, use_syslog |-> 0]

NoLoc ==
    [fn |-> "none", macro |-> "none", lvl |-> 0, has_errno |-> 0, errnum |-> 0,
     fmt |-> "", tbuf |-> "", msg |-> "", ebuf |-> "",
     pname |-> "", c |-> "", r |-> "", fp |-> NULL, sl |-> 0,
     inc |-> -1, werr |-> 0, n |-> -1, arg |-> 0, evals |-> 0]

\* one thing done to a sink
NoEv ==
    [sink |-> "", op |-> "", c |-> "", r |-> "", ts |-> "", level |-> "",
     pname |-> "", msg |-> "", errnum |-> -1, detail |-> "", h |-> NULL,
     sl |-> -1, frames |-> 0, held |-> FALSE]

Init ==
    /\ g_derr = derr_state0
    /\ mu = NoThread
    /\ pc = [t \in Threads |-> "idle"]
    /\ loc = [t \in Threads |-> NoLoc]
    /\ ev = [t \in Threads |-> <<>>]
    /\ lastw = NoThread
    /\ chan = "closed"
    /\ nopen = 0
    /\ nclose = 0
    /\ proc = "running"
    /\ calls = MaxCalls

Running(t, at) == proc = "running" /\ pc[t] = at
CanCall(t) ==
    /\ Running(t, "idle")
    /\ calls > 0

Goto(t, to) == pc' = [pc EXCEPT ![t] = to]
SetLoc(t, l) == loc' = [loc EXCEPT ![t] = l]
Emit(t, e) ==
    ev' = [ev EXCEPT ![t] = Append(@, [e EXCEPT !.held = (mu = t)])]

\* ======================= calls =======================

Call(t, l) ==
    /\ SetLoc(t, l)
    /\ ev' = [ev EXCEPT ![t] = <<>>]
    /\ calls' = calls - 1

\* derr_log(lvl, fmt, ...): va_start, vemit(lvl, 0, 0, fmt, ap)
derr_log(t, lvl) ==
    /\ CanCall(t)
    /\ Call(t, [NoLoc EXCEPT !.fn = "derr_log", !.lvl = lvl, !.fmt = "user"])
    /\ Goto(t, "v_filter")
    /\ UNCHANGED <<g_derr, mu, lastw, chan, nopen, nclose, proc>>

\* derr_log_errno(lvl, errnum, fmt, ...): va_start, vemit(lvl, 1, errnum, fmt, ap)
derr_log_errno(t, lvl, errnum) ==
    /\ CanCall(t)
    /\ Call(t, [NoLoc EXCEPT !.fn = "derr_log_errno", !.lvl = lvl,
                             !.has_errno = 1, !.errnum = errnum, !.fmt = "user"])
    /\ Goto(t, "v_filter")
    /\ UNCHANGED <<g_derr, mu, lastw, chan, nopen, nclose, proc>>

\* derr_flush() called by the program
derr_flush(t) ==
    /\ CanCall(t)
    /\ Call(t, [NoLoc EXCEPT !.fn = "derr_flush"])
    /\ Goto(t, "f_lock")
    /\ UNCHANGED <<g_derr, mu, lastw, chan, nopen, nclose, proc>>

\* DIE(...): derr_log(DERR_FATAL, ...)
DIE(t) ==
    /\ CanCall(t)
    /\ Call(t, [NoLoc EXCEPT !.fn = "derr_log", !.macro = "DIE",
                             !.lvl = DERR_FATAL, !.fmt = "user"])
    /\ Goto(t, "v_filter")
    /\ UNCHANGED <<g_derr, mu, lastw, chan, nopen, nclose, proc>>

\* DIE_ERRNO(...): derr_log_errno(DERR_FATAL, errno, ...)
DIE_ERRNO(t, errno) ==
    /\ CanCall(t)
    /\ Call(t, [NoLoc EXCEPT !.fn = "derr_log_errno", !.macro = "DIE_ERRNO",
                             !.lvl = DERR_FATAL, !.has_errno = 1,
                             !.errnum = errno, !.fmt = "user"])
    /\ Goto(t, "v_filter")
    /\ UNCHANGED <<g_derr, mu, lastw, chan, nopen, nclose, proc>>

\* a macro that tests its argument: the failure path logs FATAL with errno,
\* the other path does nothing at all
Guarded(t, macro, arg, fails, errno, fmt) ==
    /\ CanCall(t)
    /\ IF fails
       THEN /\ Call(t, [NoLoc EXCEPT !.fn = "derr_log_errno", !.macro = macro,
                                     !.lvl = DERR_FATAL, !.has_errno = 1,
                                     !.errnum = errno, !.arg = arg, !.evals = 1,
                                     !.fmt = fmt])
            /\ Goto(t, "v_filter")
       ELSE /\ Call(t, [NoLoc EXCEPT !.fn = macro, !.macro = macro,
                                     !.arg = arg, !.evals = 1])
            /\ Goto(t, "ret")
    /\ UNCHANGED <<g_derr, mu, lastw, chan, nopen, nclose, proc>>

DASSERT_negated(t, cond, errno) ==
    Guarded(t, "DASSERT", cond, cond # 0, errno, "Assert failed: cond - user")

\* DASSERT(cond, ...): if(!(cond)) { derr_log_errno(DERR_FATAL, errno, ...); ...
DASSERT(t, cond, errno) ==
    Guarded(t, "DASSERT", cond, cond = 0, errno, "Assert failed: cond - user")

DTRY_negative(t, expr, errno) ==
    Guarded(t, "DTRY", expr, expr < 0, errno, "expr failed")

\* DTRY(expr): if(((expr)) == -1) DIE_ERRNO("%s failed", #expr)
DTRY(t, expr, errno) ==
    Guarded(t, "DTRY", expr, expr = -1, errno, "expr failed")

\* ======================= vemit =======================

v_filter_le(t) ==
    /\ Running(t, "v_filter")
    /\ Goto(t, IF loc[t].lvl <= g_derr.min_level THEN "ret" ELSE "v_ts")
    /\ UNCHANGED <<g_derr, mu, loc, ev, lastw, chan, nopen, nclose, proc, calls>>

v_filter_guarded(t) ==
    /\ Running(t, "v_filter")
    /\ mu = NoThread
    /\ Goto(t, IF loc[t].lvl < g_derr.min_level THEN "ret" ELSE "v_ts")
    /\ UNCHANGED <<g_derr, mu, loc, ev, lastw, chan, nopen, nclose, proc, calls>>

\* if(lvl < g_derr.min_level) return;
v_filter(t) ==
    /\ Running(t, "v_filter")
    /\ Goto(t, IF loc[t].lvl < g_derr.min_level THEN "ret" ELSE "v_ts")
    /\ UNCHANGED <<g_derr, mu, loc, ev, lastw, chan, nopen, nclose, proc, calls>>

\* ts_now: gmtime_r or localtime_r on g_derr.utc
v_ts(t) ==
    /\ Running(t, "v_ts")
    /\ SetLoc(t, [loc[t] EXCEPT !.tbuf = IF g_derr.utc # 0 THEN "utc" ELSE "local"])
    /\ Goto(t, "v_tsz")
    /\ UNCHANGED <<g_derr, mu, ev, lastw, chan, nopen, nclose, proc, calls>>

\* ts_now: the "Z" suffix on g_derr.utc, read again; then vsnprintf(msg, ...)
v_tsz(t) ==
    /\ Running(t, "v_tsz")
    /\ SetLoc(t, [loc[t] EXCEPT !.tbuf = @ \o (IF g_derr.utc # 0 THEN "Z" ELSE ""),
                                !.msg = loc[t].fmt])
    /\ Goto(t, "v_err")
    /\ UNCHANGED <<g_derr, mu, ev, lastw, chan, nopen, nclose, proc, calls>>

\* char ebuf[256] = {0}; if(has_errno && g_derr.include_errno) strerror_portable(...)
v_err(t) ==
    /\ Running(t, "v_err")
    /\ SetLoc(t, [loc[t] EXCEPT !.ebuf =
            IF loc[t].has_errno # 0 /\ g_derr.include_errno # 0
            THEN strerror_portable(loc[t].errnum) ELSE ""])
    /\ Goto(t, "v_pname")
    /\ UNCHANGED <<g_derr, mu, ev, lastw, chan, nopen, nclose, proc, calls>>

v_pname_stored(t) ==
    /\ Running(t, "v_pname")
    /\ SetLoc(t, [loc[t] EXCEPT !.pname =
            IF g_derr.progname # NULL THEN g_derr.progname ELSE "program"])
    /\ g_derr' = [g_derr EXCEPT !.progname =
            IF g_derr.progname # NULL THEN g_derr.progname ELSE "program"]
    /\ Goto(t, IF g_derr.progname # NULL THEN "v_pname2" ELSE "v_color")
    /\ UNCHANGED <<mu, ev, lastw, chan, nopen, nclose, proc, calls>>

\* pname = g_derr.progname ? g_derr.progname : "program": the test of
\* g_derr.progname; a null name gives "program"
v_pname(t) ==
    /\ Running(t, "v_pname")
    /\ SetLoc(t, [loc[t] EXCEPT !.pname =
            IF g_derr.progname # NULL THEN g_derr.progname ELSE "program"])
    /\ Goto(t, IF g_derr.progname # NULL THEN "v_pname2" ELSE "v_color")
    /\ UNCHANGED <<g_derr, mu, ev, lastw, chan, nopen, nclose, proc, calls>>

\* pname = g_derr.progname ? g_derr.progname : "program": the value, which is
\* the pointer that was tested or a second load of g_derr.progname; a null
\* pname is printed as "(null)"
v_pname2(t) ==
    /\ Running(t, "v_pname2")
    /\ \E p \in {loc[t].pname, g_derr.progname} :
            SetLoc(t, [loc[t] EXCEPT !.pname = p])
    /\ Goto(t, "v_color")
    /\ UNCHANGED <<g_derr, mu, ev, lastw, chan, nopen, nclose, proc, calls>>

\* c = level_color(lvl)
v_color(t) ==
    /\ Running(t, "v_color")
    /\ SetLoc(t, [loc[t] EXCEPT !.c = level_color(g_derr.color, loc[t].lvl)])
    /\ Goto(t, "v_reset")
    /\ UNCHANGED <<g_derr, mu, ev, lastw, chan, nopen, nclose, proc, calls>>

\* r = color_reset()
v_reset(t) ==
    /\ Running(t, "v_reset")
    /\ SetLoc(t, [loc[t] EXCEPT !.r = color_reset(g_derr.color)])
    /\ Goto(t, "v_lock")
    /\ UNCHANGED <<g_derr, mu, ev, lastw, chan, nopen, nclose, proc, calls>>

lock_nowait(t, at, to) ==
    /\ Running(t, at)
    /\ mu' = t
    /\ Goto(t, to)

\* lock(): pthread_mutex_lock(&g_derr.mu)
lock(t, at, to) ==
    /\ Running(t, at)
    /\ mu = NoThread
    /\ mu' = t
    /\ Goto(t, to)

unlock_skipped(t, at, to) ==
    /\ Running(t, at)
    /\ mu' = mu
    /\ Goto(t, to)

\* unlock(): pthread_mutex_unlock(&g_derr.mu); the default mutex does not
\* look at its owner, so the guard is free afterwards whoever held it
unlock(t, at, to) ==
    /\ Running(t, at)
    /\ mu' = NoThread
    /\ Goto(t, to)

v_lock(t) ==
    /\ lock(t, "v_lock", "v_con")
    /\ UNCHANGED <<g_derr, loc, ev, lastw, chan, nopen, nclose, proc, calls>>

\* the first fprintf(stderr, ...): the line, with (errno=%d) on include_errno
v_con(t) ==
    /\ Running(t, "v_con")
    /\ Emit(t, [NoEv EXCEPT !.sink = "console", !.op = "line",
                  !.c = loc[t].c, !.ts = loc[t].tbuf, !.r = loc[t].r,
                  !.level = level_str(loc[t].lvl), !.pname = loc[t].pname,
                  !.msg = loc[t].msg,
                  !.errnum = IF loc[t].has_errno # 0 /\ g_derr.include_errno # 0
                             THEN loc[t].errnum ELSE -1])
    /\ lastw' = t
    /\ Goto(t, "v_con2")
    /\ UNCHANGED <<g_derr, mu, loc, chan, nopen, nclose, proc, calls>>

v_con2_any(t) ==
    /\ Running(t, "v_con2")
    /\ IF g_derr.include_errno # 0
       THEN /\ Emit(t, [NoEv EXCEPT !.sink = "console", !.op = "detail",
                          !.c = loc[t].c, !.r = loc[t].r, !.detail = loc[t].ebuf])
            /\ lastw' = t
       ELSE UNCHANGED <<ev, lastw>>
    /\ SetLoc(t, [loc[t] EXCEPT !.inc =
            IF loc[t].has_errno # 0 /\ g_derr.include_errno = 0 THEN 0 ELSE -1])
    /\ Goto(t, "v_file")
    /\ UNCHANGED <<g_derr, mu, chan, nopen, nclose, proc, calls>>

\* if(has_errno && g_derr.include_errno) fprintf(stderr, "%s        -> %s%s\n", ...);
\* when the flag was read as 0 no call follows the read, and the value may
\* stay in a register for the next test (inc = 0)
v_con2(t) ==
    /\ Running(t, "v_con2")
    /\ IF loc[t].has_errno # 0 /\ g_derr.include_errno # 0
       THEN /\ Emit(t, [NoEv EXCEPT !.sink = "console", !.op = "detail",
                          !.c = loc[t].c, !.r = loc[t].r, !.detail = loc[t].ebuf])
            /\ lastw' = t
       ELSE UNCHANGED <<ev, lastw>>
    /\ SetLoc(t, [loc[t] EXCEPT !.inc =
            IF loc[t].has_errno # 0 /\ g_derr.include_errno = 0 THEN 0 ELSE -1])
    /\ Goto(t, "v_file")
    /\ UNCHANGED <<g_derr, mu, chan, nopen, nclose, proc, calls>>

\* if(g_derr.file){
v_file(t) ==
    /\ Running(t, "v_file")
    /\ SetLoc(t, [loc[t] EXCEPT !.fp = g_derr.file,
                                !.inc = IF g_derr.file # NULL THEN @ ELSE -1])
    /\ Goto(t, IF g_derr.file # NULL THEN "v_fsel" ELSE "v_sys")
    /\ UNCHANGED <<g_derr, mu, ev, lastw, chan, nopen, nclose, proc, calls>>

\* if(has_errno && g_derr.include_errno) ... else ...: which fprintf to the
\* file; the flag is loaded again, or, when line 252 read it as 0, the value
\* of that read is used (the optimised build goes from that test straight to
\* the fprintf without errno)
v_fsel(t) ==
    /\ Running(t, "v_fsel")
    /\ \E w \in {IF loc[t].has_errno # 0 /\ g_derr.include_errno # 0 THEN 1 ELSE 0}
                \cup (IF loc[t].inc = 0 THEN {0} ELSE {}) :
            SetLoc(t, [loc[t] EXCEPT !.werr = w, !.inc = -1])
    /\ Goto(t, "v_fwrite")
    /\ UNCHANGED <<g_derr, mu, ev, lastw, chan, nopen, nclose, proc, calls>>

\* fprintf(g_derr.file, ...): the stream is the pointer tested by the if or a
\* fresh load of g_derr.file; fprintf on a null stream ends the process
v_fwrite(t) ==
    /\ Running(t, "v_fwrite")
    /\ \E h \in {loc[t].fp, g_derr.file} :
        /\ Emit(t, [NoEv EXCEPT !.sink = "file", !.op = "line", !.h = h,
                      !.ts = loc[t].tbuf, !.level = level_str(loc[t].lvl),
                      !.pname = loc[t].pname, !.msg = loc[t].msg,
                      !.errnum = IF loc[t].werr # 0 THEN loc[t].errnum ELSE -1,
                      !.detail = IF loc[t].werr # 0 THEN loc[t].ebuf ELSE ""])
        /\ proc' = IF h = NULL THEN "segv" ELSE proc
    /\ SetLoc(t, [loc[t] EXCEPT !.werr = 0])
    /\ lastw' = t
    /\ Goto(t, "v_fflush")
    /\ UNCHANGED <<g_derr, mu, chan, nopen, nclose, calls>>

\* fflush(g_derr.file): g_derr.file is loaded again after fprintf
v_fflush(t) ==
    /\ Running(t, "v_fflush")
    /\ Emit(t, [NoEv EXCEPT !.sink = "file", !.op = "flush", !.h = g_derr.file])
    /\ Goto(t, "v_sys")
    /\ UNCHANGED <<g_derr, mu, loc, lastw, chan, nopen, nclose, proc, calls>>

\* if(g_derr.use_syslog){ switch(lvl){...}
v_sys(t) ==
    /\ Running(t, "v_sys")
    /\ IF g_derr.use_syslog # 0
       THEN /\ SetLoc(t, [loc[t] EXCEPT !.sl = syslog_priority(loc[t].lvl)])
            /\ Goto(t, "v_ssel")
       ELSE /\ UNCHANGED loc
            /\ Goto(t, "v_bt")
    /\ UNCHANGED <<g_derr, mu, ev, lastw, chan, nopen, nclose, proc, calls>>

\* if(has_errno && g_derr.include_errno) ... else ...: which syslog() call
v_ssel(t) ==
    /\ Running(t, "v_ssel")
    /\ SetLoc(t, [loc[t] EXCEPT !.werr =
            IF loc[t].has_errno # 0 /\ g_derr.include_errno # 0 THEN 1 ELSE 0])
    /\ Goto(t, "v_syslog")
    /\ UNCHANGED <<g_derr, mu, ev, lastw, chan, nopen, nclose, proc, calls>>

\* syslog(sl, ...); syslog opens the channel when it is closed
v_syslog(t) ==
    /\ Running(t, "v_syslog")
    /\ Emit(t, [NoEv EXCEPT !.sink = "syslog", !.op = "line", !.sl = loc[t].sl,
                  !.pname = loc[t].pname, !.msg = loc[t].msg,
                  !.errnum = IF loc[t].werr # 0 THEN loc[t].errnum ELSE -1,
                  !.detail = IF loc[t].werr # 0 THEN loc[t].ebuf ELSE ""])
    /\ SetLoc(t, [loc[t] EXCEPT !.werr = 0])
    /\ chan' = "open"
    /\ lastw' = t
    /\ Goto(t, "v_bt")
    /\ UNCHANGED <<g_derr, mu, nopen, nclose, proc, calls>>

\* the backtrace block of vemit, entered on lvl >= threshold
Backtrace(t, threshold) ==
    /\ Running(t, "v_bt")
    /\ IF loc[t].lvl >= threshold
       THEN \E n \in FrameInputs :
                /\ SetLoc(t, [loc[t] EXCEPT !.n = n])
                /\ IF n > 0
                   THEN /\ Emit(t, [NoEv EXCEPT !.sink = "console",
                                      !.op = "backtrace", !.c = loc[t].c,
                                      !.r = loc[t].r, !.frames = n])
                        /\ lastw' = t
                   ELSE UNCHANGED <<ev, lastw>>
       ELSE UNCHANGED <<loc, ev, lastw>>
    /\ Goto(t, "v_unlock")
    /\ UNCHANGED <<g_derr, mu, chan, nopen, nclose, proc, calls>>

v_bt_on_error(t) == Backtrace(t, DERR_ERROR)

\* if(lvl >= DERR_FATAL){ n = backtrace(bt, 128); if(n > 0){ ... } }
v_bt(t) == Backtrace(t, DERR_FATAL)

v_unlock_below_fatal(t) ==
    /\ Running(t, "v_unlock")
    /\ mu' = (IF mu = t /\ loc[t].lvl < DERR_FATAL THEN NoThread ELSE mu)
    /\ Goto(t, "ret")
    /\ UNCHANGED <<g_derr, loc, ev, lastw, chan, nopen, nclose, proc, calls>>

\* unlock(); and vemit returns
v_unlock(t) ==
    /\ unlock(t, "v_unlock", "ret")
    /\ UNCHANGED <<g_derr, loc, ev, lastw, chan, nopen, nclose, proc, calls>>

\* ======================= derr_flush =======================

f_lock(t) ==
    /\ lock(t, "f_lock", "f_con")
    /\ UNCHANGED <<g_derr, loc, ev, lastw, chan, nopen, nclose, proc, calls>>

\* fflush(stderr)
f_con(t) ==
    /\ Running(t, "f_con")
    /\ Emit(t, [NoEv EXCEPT !.sink = "console", !.op = "flush"])
    /\ Goto(t, "f_file")
    /\ UNCHANGED <<g_derr, mu, loc, lastw, chan, nopen, nclose, proc, calls>>

f_file_never(t) ==
    /\ Running(t, "f_file")
    /\ SetLoc(t, [loc[t] EXCEPT !.fp = g_derr.file])
    /\ Goto(t, "f_unlock")
    /\ UNCHANGED <<g_derr, mu, ev, lastw, chan, nopen, nclose, proc, calls>>

\* if(g_derr.file)
f_file(t) ==
    /\ Running(t, "f_file")
    /\ SetLoc(t, [loc[t] EXCEPT !.fp = g_derr.file])
    /\ Goto(t, IF g_derr.file # NULL THEN "f_fflush" ELSE "f_unlock")
    /\ UNCHANGED <<g_derr, mu, ev, lastw, chan, nopen, nclose, proc, calls>>

\* fflush(g_derr.file): the pointer tested by the if or a fresh load
f_fflush(t) ==
    /\ Running(t, "f_fflush")
    /\ \E h \in {loc[t].fp, g_derr.file} :
         Emit(t, [NoEv EXCEPT !.sink = "file", !.op = "flush", !.h = h])
    /\ Goto(t, "f_unlock")
    /\ UNCHANGED <<g_derr, mu, loc, lastw, chan, nopen, nclose, proc, calls>>

\* unlock(); and derr_flush returns
f_unlock(t) ==
    /\ unlock(t, "f_unlock", "ret")
    /\ UNCHANGED <<g_derr, loc, ev, lastw, chan, nopen, nclose, proc, calls>>

\* ======================= after a call returns =======================

InMacro(t) == loc[t].macro # "none" /\ loc[t].fn \notin {"DASSERT", "DTRY"}

\* va_end(ap) and the return to the program; a macro whose test failed ends here
Return(t) ==
    /\ Running(t, "ret")
    /\ ~InMacro(t)
    /\ SetLoc(t, NoLoc)
    /\ ev' = [ev EXCEPT ![t] = <<>>]
    /\ Goto(t, "idle")
    /\ UNCHANGED <<g_derr, mu, lastw, chan, nopen, nclose, proc, calls>>

\* the derr_flush(); of DIE, DIE_ERRNO and DASSERT
m_flush(t) ==
    /\ Running(t, "ret")
    /\ InMacro(t)
    /\ loc[t].fn \in {"derr_log", "derr_log_errno"}
    /\ SetLoc(t, [loc[t] EXCEPT !.fn = "derr_flush"])
    /\ Goto(t, "f_lock")
    /\ UNCHANGED <<g_derr, mu, ev, lastw, chan, nopen, nclose, proc, calls>>

m_exit_unflushed(t) ==
    /\ Running(t, "ret")
    /\ loc[t].macro \in {"DIE", "DIE_ERRNO", "DTRY"}
    /\ proc' = "exit_failure"
    /\ Goto(t, "exit")
    /\ UNCHANGED <<g_derr, mu, loc, ev, lastw, chan, nopen, nclose, calls>>

\* exit(EXIT_FAILURE)
m_exit(t) ==
    /\ Running(t, "ret")
    /\ loc[t].macro \in {"DIE", "DIE_ERRNO", "DTRY"}
    /\ loc[t].fn = "derr_flush"
    /\ proc' = "exit_failure"
    /\ Goto(t, "exit")
    /\ UNCHANGED <<g_derr, mu, loc, ev, lastw, chan, nopen, nclose, calls>>

\* abort()
m_abort(t) ==
    /\ Running(t, "ret")
    /\ loc[t].macro = "DASSERT"
    /\ loc[t].fn = "derr_flush"
    /\ proc' = "abort"
    /\ Goto(t, "abort")
    /\ UNCHANGED <<g_derr, mu, loc, ev, lastw, chan, nopen, nclose, calls>>

\* ======================= setters =======================

Set(t, cfg) ==
    /\ CanCall(t)
    /\ g_derr' = cfg
    /\ calls' = calls - 1
    /\ UNCHANGED <<mu, pc, loc, ev, lastw, chan, nopen, nclose, proc>>

derr_set_program_name(t, name) == Set(t, [g_derr EXCEPT !.progname = name])
derr_set_min_level(t, lvl) == Set(t, [g_derr EXCEPT !.min_level = lvl])
derr_enable_color(t, enable) == Set(t, [g_derr EXCEPT !.color = Bool01(enable)])
derr_set_timestamp_utc(t, use_utc) == Set(t, [g_derr EXCEPT !.utc = Bool01(use_utc)])
derr_set_log_file(t, fp) == Set(t, [g_derr EXCEPT !.file = fp])
derr_set_include_errno_details(t, enable) ==
    Set(t, [g_derr EXCEPT !.include_errno = Bool01(enable)])

derr_use_syslog_untested(t, enable) ==
    /\ CanCall(t)
    /\ Call(t, [NoLoc EXCEPT !.fn = "derr_use_syslog", !.arg = enable])
    /\ Goto(t, CASE enable # 0 -> "s_open"
                 [] enable = 0 /\ g_derr.use_syslog # 0 -> "s_close"
                 [] OTHER -> "ret")
    /\ UNCHANGED <<g_derr, mu, lastw, chan, nopen, nclose, proc>>

\* derr_use_syslog(enable): the test of g_derr.use_syslog
derr_use_syslog(t, enable) ==
    /\ CanCall(t)
    /\ Call(t, [NoLoc EXCEPT !.fn = "derr_use_syslog", !.arg = enable])
    /\ Goto(t, CASE enable # 0 /\ g_derr.use_syslog = 0 -> "s_open"
                 [] enable = 0 /\ g_derr.use_syslog # 0 -> "s_close"
                 [] OTHER -> "ret")
    /\ UNCHANGED <<g_derr, mu, lastw, chan, nopen, nclose, proc>>

\* openlog(...)
s_open(t) ==
    /\ Running(t, "s_open")
    /\ chan' = "open"
    /\ nopen' = nopen + 1
    /\ Goto(t, "s_set1")
    /\ UNCHANGED <<g_derr, mu, loc, ev, lastw, nclose, proc, calls>>

\* g_derr.use_syslog = 1
s_set1(t) ==
    /\ Running(t, "s_set1")
    /\ g_derr' = [g_derr EXCEPT !.use_syslog = 1]
    /\ Goto(t, "ret")
    /\ UNCHANGED <<mu, loc, ev, lastw, chan, nopen, nclose, proc, calls>>

\* closelog()
s_close(t) ==
    /\ Running(t, "s_close")
    /\ chan' = "closed"
    /\ nclose' = nclose + 1
    /\ Goto(t, "s_set0")
    /\ UNCHANGED <<g_derr, mu, loc, ev, lastw, nopen, proc, calls>>

\* g_derr.use_syslog = 0
s_set0(t) ==
    /\ Running(t, "s_set0")
    /\ g_derr' = [g_derr EXCEPT !.use_syslog = 0]
    /\ Goto(t, "ret")
    /\ UNCHANGED <<mu, loc, ev, lastw, chan, nopen, nclose, proc, calls>>

\* ======================= the program =======================

Step(t) ==
    \/ v_filter(t) \/ v_ts(t) \/ v_tsz(t) \/ v_err(t) \/ v_pname(t) \/ v_pname2(t)
    \/ v_color(t) \/ v_reset(t) \/ v_lock(t) \/ v_con(t) \/ v_con2(t)
    \/ v_file(t) \/ v_fsel(t) \/ v_fwrite(t) \/ v_fflush(t)
    \/ v_sys(t) \/ v_ssel(t) \/ v_syslog(t)
    \/ v_bt(t) \/ v_unlock(t)
    \/ f_lock(t) \/ f_con(t) \/ f_file(t) \/ f_fflush(t) \/ f_unlock(t)
    \/ Return(t) \/ m_flush(t) \/ m_exit(t) \/ m_abort(t)
    \/ s_open(t) \/ s_set1(t) \/ s_close(t) \/ s_set0(t)

\* ----- single-threaded use: thread 1 makes up to MaxCalls calls, one after another
Next ==
    \E t \in {1} :
        \/ \E lvl \in LevelInputs : derr_log(t, lvl)
        \/ \E lvl \in LevelInputs, e \in ErrnoInputs : derr_log_errno(t, lvl, e)
        \/ derr_flush(t)
        \/ DIE(t)
        \/ \E e \in ErrnoInputs : DIE_ERRNO(t, e)
        \/ \E c \in IntInputs, e \in ErrnoInputs : DASSERT(t, c, e)
        \/ \E x \in ExprInputs, e \in ErrnoInputs : DTRY(t, x, e)
        \/ \E n \in NameInputs : derr_set_program_name(t, n)
        \/ \E lvl \in LevelInputs : derr_set_min_level(t, lvl)
        \/ \E b \in IntInputs : derr_enable_color(t, b)
        \/ \E b \in IntInputs : derr_set_timestamp_utc(t, b)
        \/ \E f \in FileInputs : derr_set_log_file(t, f)
        \/ \E b \in IntInputs : derr_set_include_errno_details(t, b)
        \/ \E b \in IntInputs : derr_use_syslog(t, b)
        \/ Step(t)

Spec == Init /\ [][Next]_vars

\* ----- concurrent use: every thread calls, MaxCalls calls in all, starting from
\* the static state or from a configuration with every sink in use, with the
\* threshold at DEBUG, or at FATAL and the errno details off
AllSinks ==
    [derr_state0 EXCEPT !.progname = "demo", !.file = "fp", !.use_syslog = 1]

AllSinksFatalOnly ==
    [AllSinks EXCEPT !.min_level = DERR_FATAL, !.include_errno = 0]

InitConc ==
    /\ g_derr \in {derr_state0, AllSinks, AllSinksFatalOnly}
    /\ chan = (IF g_derr.use_syslog # 0 THEN "open" ELSE "closed")
    /\ nopen = g_derr.use_syslog
    /\ nclose = 0
    /\ mu = NoThread
    /\ pc = [t \in Threads |-> "idle"]
    /\ loc = [t \in Threads |-> NoLoc]
    /\ ev = [t \in Threads |-> <<>>]
    /\ lastw = NoThread
    /\ proc = "running"
    /\ calls = MaxConcCalls

\* DIE and DTRY take the steps of DIE_ERRNO and are called in Next
NextConc ==
    \E t \in Threads :
        \/ \E lvl \in ConcLevels : derr_log(t, lvl)
        \/ \E lvl \in ConcLevels : derr_log_errno(t, lvl, 2)
        \/ derr_flush(t)
        \/ DIE_ERRNO(t, 2)
        \/ DASSERT(t, 0, 2)
        \/ derr_set_program_name(t, NULL)
        \/ derr_set_min_level(t, DERR_FATAL)
        \/ derr_enable_color(t, 0)
        \/ derr_set_timestamp_utc(t, 1)
        \/ \E f \in FileInputs : derr_set_log_file(t, f)
        \/ \E b \in {0, 1} : derr_set_include_errno_details(t, b)
        \/ \E b \in {0, 1} : derr_use_syslog(t, b)
        \/ Step(t)

SpecConc == InitConc /\ [][NextConc]_vars

\* ======================= properties =======================

\* ----- the concurrent use under a scheduler that lets every thread run: a
\* thread that can take its next step (for lock(), the guard is free) is not
\* passed over for ever
SpecFair == SpecConc /\ \A t \in Threads : WF_vars(Step(t))

IsLine(e) == e.op = "line"
IsFlush(e) == e.op = "flush"
Lines(s) == SelectSeq(s, IsLine)
SinksOf(s) == [i \in 1..Len(s) |-> s[i].sink]
Has(s, sink, op) == \E i \in 1..Len(s) : s[i].sink = sink /\ s[i].op = op

\* vemit has returned to derr_log / derr_log_errno in thread t
Emitted(t) == pc[t] = "ret" /\ loc[t].fn \in {"derr_log", "derr_log_errno"}

\* the records an emission owes to the sinks under configuration cfg
Fanout(cfg) ==
    <<"console">> \o (IF cfg.file # NULL THEN <<"file">> ELSE <<>>)
                  \o (IF cfg.use_syslog # 0 THEN <<"syslog">> ELSE <<>>)

\* C1: a call of derr_log / derr_log_errno at severity S under threshold T
\* touches no sink when S < T; otherwise it writes one console record, then one
\* file record if a file sink is configured, then one syslog record if the
\* syslog sink is enabled, in that order.
C1_LevelFilterAndFanout ==
    \A t \in Threads :
        Emitted(t) =>
            IF loc[t].lvl < g_derr.min_level
            THEN ev[t] = <<>>
            ELSE SinksOf(Lines(ev[t])) = Fanout(g_derr)

C1_Witness ==
    /\ Emitted(1)
    /\ loc[1].lvl = g_derr.min_level
    /\ g_derr.file # NULL /\ g_derr.use_syslog # 0
    /\ SinksOf(Lines(ev[1])) = <<"console", "file", "syslog">>

\* between its first write and its unlock() an emission is in the sinks
InSinks(t) ==
    pc[t] \in {"v_con2", "v_file", "v_fsel", "v_fwrite", "v_fflush", "v_sys",
               "v_ssel", "v_syslog", "v_bt", "v_unlock"}

\* the records of a complete emission, whatever the sinks in use
CompleteFanouts ==
    {<<"console">>, <<"console", "file">>, <<"console", "syslog">>,
     <<"console", "file", "syslog">>}

\* C2: the writes of one emission are contiguous: while a thread is between the
\* first and the last write of its emission it holds the guard, the write that
\* reached the sinks last is its own, and every write it made was under the
\* guard; an emission that wrote and returned left one complete record per sink.
C2_NoInterleaving ==
    \A t \in Threads :
        /\ InSinks(t) => (mu = t /\ lastw = t)
        /\ \A i \in 1..Len(ev[t]) : ev[t][i].held
        /\ (Emitted(t) /\ ev[t] # <<>>) => SinksOf(Lines(ev[t])) \in CompleteFanouts

C2_Witness ==
    /\ pc[1] = "v_syslog" /\ Len(ev[1]) >= 3
    /\ pc[2] = "v_lock" /\ loc[2].lvl >= g_derr.min_level
    /\ proc = "running"

\* holding the guard: between lock() and unlock() of vemit or derr_flush
InGuard(t) ==
    pc[t] \in {"v_con", "v_con2", "v_file", "v_fsel", "v_fwrite", "v_fflush",
               "v_sys", "v_ssel", "v_syslog", "v_bt", "v_unlock", "f_con",
               "f_file", "f_fflush", "f_unlock"}

\* C3: at most one thread is between lock() and unlock(); every sink write and
\* every flush was made by the thread holding the guard; a thread that has
\* returned from derr_log, derr_log_errno or derr_flush does not hold the guard.
C3_GuardDiscipline ==
    /\ \A t, u \in Threads : (InGuard(t) /\ InGuard(u)) => t = u
    /\ \A t \in Threads :
        /\ InGuard(t) => mu = t
        /\ \A i \in 1..Len(ev[t]) : ev[t][i].held
        /\ pc[t] \in {"ret", "idle", "exit", "abort"} => mu # t

C3_Witness ==
    /\ pc[1] = "ret" /\ loc[1].fn = "derr_flush" /\ Has(ev[1], "file", "flush")
    /\ pc[2] = "v_fwrite"

\* the sinks as a fatal macro leaves them: the FATAL record first, then
\* derr_flush: fflush(stderr) and, with a file sink, fflush of the file, last
FatalThenFlush(s) ==
    \E k \in 2..Len(s) :
        /\ s[1].sink = "console" /\ s[1].op = "line" /\ s[1].level = "FATAL"
        /\ s[k].sink = "console" /\ s[k].op = "flush"
        /\ \A i \in 1..(k-1) : s[i].sink = "console" => s[i].op # "flush"
        /\ \A i \in (k+1)..Len(s) : s[i].sink = "file" /\ s[i].op = "flush"
        /\ (Len(s) > k) = (g_derr.file # NULL)

ExitMacros == {"DIE", "DIE_ERRNO", "DTRY"}

C4_State ==
    /\ \A t \in Threads :
        loc[t].macro \in {"DIE", "DIE_ERRNO"} =>
            /\ loc[t].lvl = DERR_FATAL
            /\ pc[t] \notin {"idle", "abort"}
            /\ Emitted(t) => (ev[t] # <<>> /\ ev[t][1].level = "FATAL")
            /\ (pc[t] = "ret" /\ loc[t].fn = "derr_flush") => FatalThenFlush(ev[t])
            /\ pc[t] = "exit" => (proc = "exit_failure" /\ FatalThenFlush(ev[t]))
    /\ proc = "exit_failure" =>
            \E t \in Threads : /\ pc[t] = "exit"
                               /\ loc[t].macro \in ExitMacros
                               /\ FatalThenFlush(ev[t])

C4_Step ==
    \A t \in Threads :
        loc[t].macro \in {"DIE", "DIE_ERRNO"} =>
            (loc'[t].macro = loc[t].macro /\ pc'[t] # "idle")

\* C4: DIE / DIE_ERRNO write a FATAL record whatever the configuration, then
\* flush every sink, then exit with a failure status; they never return, and
\* the process exits only after the exiting thread has flushed.
C4_FatalSequence == [][C4_Step]_vars /\ []C4_State

C4_Witness ==
    /\ proc = "exit_failure" /\ pc[1] = "exit" /\ loc[1].macro = "DIE"
    /\ g_derr.min_level = DERR_FATAL /\ g_derr.file # NULL
    /\ Has(ev[1], "file", "line")

\* a macro whose test passed: nothing written, flushed, locked or terminated
NoEffect(t, macro) ==
    /\ pc[t] = "ret" /\ loc[t].fn = macro
    /\ ev[t] = <<>> /\ mu # t /\ proc = "running" /\ loc[t].evals = 1

\* a macro whose test failed: the FATAL record with errno, the flush, the end
FailurePath(t, fmt, end, how) ==
    /\ loc[t].fn \in {"derr_log_errno", "derr_flush"}
    /\ loc[t].lvl = DERR_FATAL /\ loc[t].has_errno = 1 /\ loc[t].evals = 1
    /\ pc[t] \notin ({"idle", "exit", "abort"} \ {end})
    /\ Emitted(t) =>
          /\ ev[t] # <<>>
          /\ ev[t][1].level = "FATAL" /\ ev[t][1].msg = fmt
          /\ g_derr.include_errno # 0 => ev[t][1].errnum = loc[t].errnum
    /\ (pc[t] = "ret" /\ loc[t].fn = "derr_flush") => FatalThenFlush(ev[t])
    /\ pc[t] = end => (proc = how /\ FatalThenFlush(ev[t]))

\* what a step leaves alone when a macro's test passes
Untouched == UNCHANGED <<g_derr, mu, lastw, chan, nopen, nclose, proc>>

C5_State ==
    /\ \A t \in Threads :
        loc[t].macro = "DASSERT" =>
            IF loc[t].arg # 0
            THEN NoEffect(t, "DASSERT")
            ELSE FailurePath(t, "Assert failed: cond - user", "abort", "abort")
    /\ proc = "abort" =>
            \E t \in Threads : pc[t] = "abort" /\ loc[t].macro = "DASSERT"
    /\ \A t \in Threads : pc[t] = "abort" => proc = "abort"

C5_Step ==
    \A t \in Threads :
        /\ (loc'[t].macro = "DASSERT" /\ loc'[t].arg # 0) => (Untouched /\ ev'[t] = <<>>)
        /\ (loc[t].macro = "DASSERT" /\ loc[t].arg # 0) => Untouched
        /\ (loc[t].macro = "DASSERT" /\ loc[t].arg = 0) =>
                (loc'[t].macro = "DASSERT" /\ pc'[t] # "idle")

\* C5: DASSERT with a true condition changes nothing (no sink write, no lock,
\* no flush, no termination, configuration as it was); with a false condition
\* it writes a FATAL record with the condition's text and errno, flushes, and
\* ends the process by abort(), never by exit().
C5_Assert == [][C5_Step]_vars /\ []C5_State

C5_Witness ==
    /\ proc = "abort" /\ pc[1] = "abort" /\ loc[1].arg = 0
    /\ Has(ev[1], "console", "detail") /\ g_derr.file # NULL

C6_State ==
    \A t \in Threads :
        loc[t].macro = "DTRY" =>
            IF loc[t].arg # -1
            THEN NoEffect(t, "DTRY")
            ELSE FailurePath(t, "expr failed", "exit", "exit_failure")

C6_Step ==
    \A t \in Threads :
        /\ (loc'[t].macro = "DTRY" /\ loc'[t].arg # -1) => (Untouched /\ ev'[t] = <<>>)
        /\ (loc[t].macro = "DTRY" /\ loc[t].arg # -1) => Untouched
        /\ (loc[t].macro = "DTRY" /\ loc[t].arg = -1) =>
                (loc'[t].macro = "DTRY" /\ pc'[t] # "idle")

\* C6: DTRY evaluates its expression once; on -1 it does what DIE_ERRNO does
\* with the current errno and a message naming the expression (FATAL record,
\* flush, exit with failure); on any other value it changes nothing.
C6_GuardedCall == [][C6_Step]_vars /\ []C6_State

C6_Witness ==
    /\ proc = "exit_failure" /\ pc[1] = "exit" /\ loc[1].macro = "DTRY"
    /\ loc[1].arg = -1 /\ ev[1][1].msg = "expr failed" /\ ev[1][1].errnum = 2

\* C7: an emission that passed the filter shows the errno detail in a sink if
\* and only if the record carries an error code and the errno-detail flag is
\* on, and it does so in every sink it writes.
C7_ErrnoDetail ==
    \A t \in Threads :
        (Emitted(t) /\ loc[t].lvl >= g_derr.min_level) =>
            LET d == loc[t].has_errno # 0 /\ g_derr.include_errno # 0
            IN  /\ Has(ev[t], "console", "detail") = d
                /\ \A i \in 1..Len(ev[t]) :
                    /\ ev[t][i].op = "detail" =>
                          ev[t][i].detail = strerror_portable(loc[t].errnum)
                    /\ ev[t][i].op = "line" =>
                          /\ (ev[t][i].errnum # -1) = d
                          /\ d => ev[t][i].errnum = loc[t].errnum
                          /\ ev[t][i].sink # "console" =>
                                ev[t][i].detail =
                                    (IF d THEN strerror_portable(loc[t].errnum) ELSE "")

C7_Witness ==
    /\ Emitted(1) /\ loc[1].has_errno = 1 /\ g_derr.include_errno = 1
    /\ SinksOf(Lines(ev[1])) = <<"console", "file", "syslog">>
    /\ Has(ev[1], "console", "detail")

\* C8: used from one thread, derr_use_syslog opens the channel on off-to-on
\* and closes it on on-to-off only: enabling when on and disabling when off do
\* nothing, opens minus closes is the flag, and the channel is open exactly
\* when the flag is set.
C8_SyslogToggle ==
    \A t \in {1} :
        CASE pc[t] = "s_open" ->
                /\ loc[t].arg # 0 /\ g_derr.use_syslog = 0
                /\ chan = "closed" /\ nopen = nclose
          [] pc[t] = "s_set1" ->
                /\ g_derr.use_syslog = 0 /\ chan = "open" /\ nopen = nclose + 1
          [] pc[t] = "s_close" ->
                /\ loc[t].arg = 0 /\ g_derr.use_syslog = 1
                /\ chan = "open" /\ nopen = nclose + 1
          [] pc[t] = "s_set0" ->
                /\ g_derr.use_syslog = 1 /\ chan = "closed" /\ nopen = nclose
          [] OTHER ->
                /\ nopen - nclose = g_derr.use_syslog
                /\ (chan = "open") = (g_derr.use_syslog = 1)
                /\ (pc[t] = "ret" /\ loc[t].fn = "derr_use_syslog") =>
                        g_derr.use_syslog = Bool01(loc[t].arg)

C8_Witness ==
    /\ pc[1] = "ret" /\ loc[1].fn = "derr_use_syslog"
    /\ nopen = 2 /\ nclose = 1 /\ g_derr.use_syslog = 1 /\ chan = "open"

\* C9: no write and no flush is made on an absent file handle, whatever
\* derr_set_log_file does on another thread.
C9_NoNullFile ==
    \A t \in Threads : \A i \in 1..Len(ev[t]) :
        ev[t][i].sink = "file" => ev[t][i].h # NULL

\* C10: with derr_use_syslog called from several threads, opens minus closes
\* is 0 or 1, no open happens while the channel is open, and once every call
\* has returned the channel is open exactly when the flag is set.
C10_ConcurrentToggle ==
    /\ nopen - nclose \in {0, 1}
    /\ \A t \in Threads : pc[t] = "s_open" => chan = "closed"
    /\ (\A t \in Threads : pc[t] \in {"idle", "ret"}) =>
            (chan = "open") = (g_derr.use_syslog = 1)

\* the console writes that take the colour prefix and the reset
ColouredOps == {"line", "detail", "backtrace"}

\* C11: with colour disabled nothing written to any sink carries an escape
\* sequence, whatever the severity; file and syslog records never carry one,
\* and with colour enabled every console line has both the prefix and the
\* reset.
C11_ColorOnlyOnConsole ==
    \A t \in Threads : \A i \in 1..Len(ev[t]) :
        LET e == ev[t][i]
        IN  /\ e.sink \in {"file", "syslog"} => (e.c = "" /\ e.r = "")
            /\ g_derr.color = 0 => (e.c = "" /\ e.r = "")
            /\ (g_derr.color # 0 /\ e.sink = "console" /\ e.op \in ColouredOps)
                    => (e.c = level_color(1, loc[t].lvl) /\ e.r = "ESC[0m")

C11_Witness ==
    /\ Emitted(1) /\ g_derr.color = 0 /\ g_derr.file # NULL
    /\ loc[1].lvl = DERR_FATAL
    /\ SinksOf(ev[1]) = <<"console", "file", "file", "console">>
    /\ ev[1][4].op = "backtrace" /\ ev[1][4].c = ""

\* C12: a backtrace is written only by an emission of severity FATAL or more
\* that passed the filter, only to the console, under the guard, and after
\* every record of that emission (console, file and syslog); an emission
\* below FATAL writes none, and a capture of no frame writes nothing and ends
\* nothing.
C12_Backtrace ==
    \A t \in Threads :
        /\ \A i \in 1..Len(ev[t]) :
                ev[t][i].op = "backtrace" =>
                    /\ ev[t][i].sink = "console" /\ ev[t][i].held
                    /\ loc[t].lvl >= DERR_FATAL /\ loc[t].lvl >= g_derr.min_level
                    /\ ev[t][i].frames = loc[t].n /\ loc[t].n > 0
                    /\ \A j \in 1..Len(ev[t]) :
                            (IsLine(ev[t][j]) \/ ev[t][j].op = "detail") => j < i
        /\ Emitted(t) =>
                /\ Has(ev[t], "console", "backtrace") <=>
                        (loc[t].lvl >= DERR_FATAL /\ loc[t].n > 0)
                /\ Has(ev[t], "console", "backtrace") =>
                        /\ ev[t][Len(ev[t])].op = "backtrace"
                        /\ SinksOf(Lines(ev[t])) = Fanout(g_derr)
                /\ loc[t].lvl < DERR_FATAL => loc[t].n = -1
                /\ (loc[t].lvl >= DERR_FATAL /\ loc[t].lvl >= g_derr.min_level)
                        => loc[t].n \in FrameInputs
                /\ loc[t].n = 0 => (proc = "running" /\ mu # t)

C12_Witness ==
    /\ Emitted(1) /\ loc[1].lvl = 60 /\ loc[1].fn = "derr_log"
    /\ SinksOf(ev[1]) = <<"console", "file", "file", "syslog", "console">>
    /\ ev[1][5].op = "backtrace" /\ ev[1][5].frames = 3

C12_WitnessEmpty ==
    /\ Emitted(1) /\ loc[1].lvl = DERR_FATAL /\ loc[1].n = 0
    /\ g_derr.file # NULL /\ ~Has(ev[1], "console", "backtrace")

\* the positions of a thread inside derr_flush
FlushPcs == {"f_lock", "f_con", "f_file", "f_fflush", "f_unlock"}

NotFlush(e) == ~IsFlush(e)

\* what derr_flush did: the sink events from its fflush(stderr) on
FlushTail(s) ==
    LET k == CHOOSE i \in 1..Len(s) : s[i].sink = "console" /\ IsFlush(s[i])
    IN  SubSeq(s, k, Len(s))

C13_State ==
    \A t \in Threads :
        /\ pc[t] \in FlushPcs \ {"f_lock"} => mu = t
        /\ (pc[t] = "ret" /\ loc[t].fn = "derr_flush") =>
                /\ mu # t
                /\ Has(ev[t], "console", "flush")
                /\ \A i \in 1..Len(ev[t]) : ev[t][i].held
                /\ FlushTail(ev[t]) =
                        <<[NoEv EXCEPT !.sink = "console", !.op = "flush",
                                       !.held = TRUE]>>
                        \o (IF g_derr.file # NULL
                            THEN <<[NoEv EXCEPT !.sink = "file", !.op = "flush",
                                                !.h = g_derr.file, !.held = TRUE]>>
                            ELSE <<>>)

C13_Step ==
    \A t \in Threads :
        (pc'[t] \in FlushPcs \/ pc[t] \in FlushPcs) =>
            /\ UNCHANGED <<g_derr, chan, nopen, nclose, proc, lastw>>
            /\ SelectSeq(ev'[t], NotFlush) = SelectSeq(ev[t], NotFlush)

\* C13: derr_flush flushes stderr and, exactly when a file sink is set, the
\* file, both with the guard held; it writes no record to any sink, leaves
\* every configuration field as it was and has released the guard when it
\* returns.
C13_Flush == [][C13_Step]_vars /\ []C13_State

C13_Witness ==
    /\ pc[1] = "ret" /\ loc[1].fn = "derr_flush" /\ loc[1].macro = "none"
    /\ g_derr.file = "fp" /\ g_derr.use_syslog = 1
    /\ SinksOf(ev[1]) = <<"console", "file">> /\ mu = NoThread

\* C14: a record goes to syslog only when the syslog sink is enabled (and
\* then every emission that passes the filter sends exactly one); its priority
\* is debug, info, warning, error or critical for DEBUG, INFO, WARN, ERROR or
\* FATAL, and info for every other severity value.
C14_SyslogPriority ==
    \A t \in Threads :
        /\ \A i \in 1..Len(ev[t]) :
                ev[t][i].sink = "syslog" =>
                    /\ g_derr.use_syslog # 0
                    /\ loc[t].lvl = DERR_DEBUG => ev[t][i].sl = LOG_DEBUG
                    /\ loc[t].lvl = DERR_INFO  => ev[t][i].sl = LOG_INFO
                    /\ loc[t].lvl = DERR_WARN  => ev[t][i].sl = LOG_WARNING
                    /\ loc[t].lvl = DERR_ERROR => ev[t][i].sl = LOG_ERR
                    /\ loc[t].lvl = DERR_FATAL => ev[t][i].sl = LOG_CRIT
                    /\ loc[t].lvl \notin Levels => ev[t][i].sl = LOG_INFO
        /\ (Emitted(t) /\ loc[t].lvl >= g_derr.min_level /\ g_derr.use_syslog # 0)
                => Len(SelectSeq(ev[t], LAMBDA e : e.sink = "syslog")) = 1

C14_Witness ==
    /\ Emitted(1) /\ loc[1].lvl = 60 /\ g_derr.min_level = DERR_FATAL
    /\ Has(ev[1], "syslog", "line")
    /\ \E i \in 1..Len(ev[1]) : ev[1][i].sink = "syslog" /\ ev[1][i].sl = LOG_INFO

\* C15: every call of derr_log, derr_log_errno, derr_flush or of a macro that
\* was started is followed by its return to the caller or by the end of the
\* process: no thread waits for the guard for ever, on the fatal path and with
\* setters on the other thread included.
C15_CallsComplete ==
    \A t \in Threads : (pc[t] # "idle") ~> (pc[t] = "idle" \/ proc # "running")

C15_Witness ==
    /\ pc[1] = "f_lock" /\ loc[1].macro = "DIE_ERRNO" /\ mu = 2
    /\ pc[2] = "v_bt" /\ proc = "running"

\* nothing of the record has been prepared in thread t
NothingFormatted(t) ==
    /\ loc[t].tbuf = "" /\ loc[t].msg = "" /\ loc[t].ebuf = ""
    /\ loc[t].pname = "" /\ loc[t].c = "" /\ loc[t].r = ""

\* vemit returned from its first line in thread t
Filtered(t) == Emitted(t) /\ ev[t] = <<>>

C16_State ==
    \A t \in Threads :
        /\ pc[t] = "v_filter" =>
                /\ NothingFormatted(t) /\ mu # t /\ ev[t] = <<>>
                /\ proc = "running" => ENABLED v_filter(t)
        /\ Filtered(t) => (NothingFormatted(t) /\ mu # t)

C16_Step ==
    \A t \in Threads :
        /\ (pc[t] = "v_filter" /\ pc'[t] # "v_filter") =>
                /\ pc'[t] = (IF loc[t].lvl < g_derr.min_level THEN "ret" ELSE "v_ts")
                /\ UNCHANGED <<g_derr, mu, loc, ev, lastw>>
        /\ (Emitted(t)' /\ pc[t] # "ret" /\ pc[t] # "v_filter") => ev'[t] # <<>>

\* C16: the severity test is the first thing an emission does, before any
\* formatting and without the guard: an emission below the threshold returns
\* from that test having taken no lock, rendered no timestamp, formatted no
\* message and translated no errno, and it can do so while another thread
\* holds the guard.
C16_FilterOutsideGuard == [][C16_Step]_vars /\ []C16_State

C16_Witness ==
    /\ Filtered(1) /\ loc[1].lvl < g_derr.min_level
    /\ mu = 2 /\ pc[2] \in {"v_con2", "v_file", "v_fwrite"}

\* the positions of a thread inside vemit
VemitPcs ==
    {"v_filter", "v_ts", "v_tsz", "v_err", "v_pname", "v_pname2", "v_color",
     "v_reset", "v_lock", "v_con", "v_con2", "v_file", "v_fsel", "v_fwrite",
     "v_fflush", "v_sys", "v_ssel", "v_syslog", "v_bt", "v_unlock"}

\* thread t takes a step of derr_log / derr_log_errno: the call, a step of
\* vemit, or the return to the caller
EmissionStep(t) ==
    /\ pc'[t] # pc[t]
    /\ \/ pc[t] \in VemitPcs
       \/ pc'[t] = "v_filter"
       \/ Emitted(t) /\ pc'[t] = "idle"

\* C17: no step of derr_log / derr_log_errno, filtered or fanned out, changes
\* a configuration field (program name, threshold, colour, UTC, errno detail,
\* file sink, syslog flag): the configuration changes only by a setter; and
\* when the call returns nothing of its record remains, the next call starting
\* from empty buffers.
C17_EmissionKeepsConfig ==
    [][\A t \in Threads :
            /\ EmissionStep(t) => g_derr' = g_derr
            /\ (Emitted(t) /\ pc'[t] = "idle") => (loc'[t] = NoLoc /\ ev'[t] = <<>>)
            /\ (pc'[t] = "v_filter" /\ pc[t] # "v_filter") =>
                    (NothingFormatted(t)' /\ ev'[t] = <<>>)]_vars

C17_Witness ==
    /\ Emitted(1) /\ loc[1].has_errno = 1 /\ calls = MaxConcCalls - 1
    /\ SinksOf(Lines(ev[1])) = <<"console", "file", "syslog">>
    /\ g_derr = AllSinks /\ pc[2] = "idle"

\* C18: in one derr_log_errno emission every record written carries the errno
\* or none does, the console detail line is there exactly when the console
\* line carries the errno, and a detail that is written is a translated
\* description, never the empty buffer -- whatever
\* derr_set_include_errno_details does on another thread.
C18_ErrnoDetailConsistent ==
    \A t \in Threads :
        loc[t].has_errno = 1 =>
            LET L == Lines(ev[t])
            IN  /\ \A i, j \in 1..Len(L) : (L[i].errnum # -1) = (L[j].errnum # -1)
                /\ pc[t] # "v_con2" =>
                        (Has(ev[t], "console", "detail")
                            <=> (L # <<>> /\ L[1].errnum # -1))
                /\ \A i \in 1..Len(ev[t]) :
                        (ev[t][i].op = "detail" \/ ev[t][i].errnum # -1)
                            => (ev[t][i].sink = "console" /\ IsLine(ev[t][i]))
                               \/ ev[t][i].detail # ""

\* C19: the colour codes of a console write are paired, whatever
\* derr_enable_color does on another thread: the level colour prefix and the
\* reset sequence are both there or both absent.
C19_ColorPaired ==
    \A t \in Threads : \A i \in 1..Len(ev[t]) :
        (ev[t][i].sink = "console" /\ ev[t][i].op \in ColouredOps)
            => ((ev[t][i].c = "") <=> (ev[t][i].r = ""))

\* the description lookup fails for the errno of thread t's emission
LookupFails(t) == loc[t].has_errno = 1 /\ loc[t].errnum \notin KnownErrno

\* C20: when the description lookup fails, the errno detail is the numeric
\* placeholder "errno N" for that code, and the emission goes on as any
\* other: it writes the detail line and one record to every sink in use and
\* returns to its caller with the process running and the guard released.
C20_TranslationFallback ==
    \A t \in Threads :
        LookupFails(t) =>
            LET placeholder == "errno " \o ToString(loc[t].errnum)
            IN  /\ loc[t].ebuf \in {"", placeholder}
                /\ \A i \in 1..Len(ev[t]) :
                        ev[t][i].detail \in {"", placeholder}
                /\ (Emitted(t) /\ loc[t].lvl >= g_derr.min_level) =>
                        /\ SinksOf(Lines(ev[t])) = Fanout(g_derr)
                        /\ proc = "running" /\ mu # t
                        /\ g_derr.include_errno # 0 =>
                                /\ loc[t].ebuf = placeholder
                                /\ \A i \in 1..Len(ev[t]) :
                                        (IsLine(ev[t][i]) /\ ev[t][i].sink # "console")
                                            => ev[t][i].detail = placeholder
                                /\ \E i \in 1..Len(ev[t]) :
                                        /\ ev[t][i].sink = "console"
                                        /\ ev[t][i].op = "detail"
                                        /\ ev[t][i].detail = placeholder

C20_Witness ==
    /\ Emitted(1) /\ loc[1].errnum = 9999 /\ loc[1].ebuf = "errno 9999"
    /\ SinksOf(Lines(ev[1])) = <<"console", "file", "syslog">>
    /\ ev[1][2].op = "detail" /\ ev[1][2].detail = "errno 9999"
    /\ proc = "running"

====
